---- MODULE Spec2Model ----
(***************************************************************************)
(* Model of the tool/resource registration and execution core of           *)
(* mcp_framework: BaseMCPServer (schema inference, argument validation,    *)
(* execution), its two adapters FastMCPWrapper and SDKWrapper, and the     *)
(* ErrorHandler that turns exceptions into ErrorResponse values.           *)
(*                                                                         *)
(* Python values are records [shape, v, items]; Python strings built with  *)
(* f-strings are sequences of fragments; ordered dicts are sequences of    *)
(* <<key, value>> pairs in insertion order.                                *)
(***************************************************************************)
EXTENDS Integers, Sequences, FiniteSets, TLC

\* ------------------------------------------------------------------ bounds
MaxTools == 2
MaxArgs == 2
MaxRuns == 2
MaxTasks == 2
MaxParams == 2

\* ------------------------------------------------- ordered dicts (Python)
Range(s) == {s[i] : i \in 1..Len(s)}

DictKeys(d) == [i \in 1..Len(d) |-> d[i][1]]

DictHas(d, k) == \E i \in 1..Len(d) : d[i][1] = k

DictGet(d, k) == d[CHOOSE i \in 1..Len(d) : d[i][1] = k][2]

\* Mutant: the assignment adds a pair even when the key is there already.
DictSet_append_always(d, k, v) == Append(d, <<k, v>>)

\* d[k] = v: an existing key keeps its position, a new key goes last.
DictSet(d, k, v) ==
    IF DictHas(d, k)
    THEN [i \in 1..Len(d) |-> IF d[i][1] = k THEN <<k, v>> ELSE d[i]]
    ELSE Append(d, <<k, v>>)

\* ---------------------------------------------------------- Python values
PyVal(shape, n) == [shape |-> shape, v |-> n, items |-> <<>>]

PyNone == PyVal("NoneType", 0)

\* isinstance(value, t) for the builtin types the core tests; bool is a
\* subclass of int in Python.
IsInstance(value, t) ==
    \/ value.shape = t
    \/ (t = "int" /\ value.shape = "bool")

ShapeCode(shape) ==
    CASE shape = "str" -> 0
      [] shape = "int" -> 1
      [] shape = "float" -> 2
      [] shape = "bool" -> 3
      [] shape = "list" -> 4
      [] shape = "dict" -> 5
      [] shape = "NoneType" -> 6
      [] OTHER -> 7

\* str(value): a text stays itself, anything else is rendered to a text
\* that encodes the value's shape and payload.
PyStr(value) ==
    IF value.shape = "str"
    THEN value
    ELSE PyVal("str", 100 * (ShapeCode(value.shape) + 1) + value.v)

\* the dict literal {"result": text}
ResultDict(text) == [shape |-> "dict", v |-> 0, items |-> << <<"result", text>> >>]

\* --------------------------------------------------------- type annotations
\* An annotation is <<"empty">> (inspect.Parameter.empty), <<"plain", t>>
\* (a class such as int), <<"alias", origin, args>> (List[str]: has
\* __origin__ list) or <<"union", args>> (Union[...] / Optional[...]).
AnnEmpty == <<"empty">>
AnnPlain(t) == <<"plain", t>>
AnnAlias(origin, args) == <<"alias", origin, args>>
AnnUnion(args) == <<"union", args>>
AnnOptional(a) == AnnUnion(<<a, AnnPlain("NoneType")>>)
\* X | Y (Python 3.10 and later): a types.UnionType, which has __args__
\* but no __origin__ attribute.
AnnUnionType(args) == <<"uniontype", args>>

RECURSIVE type_to_schema(_)
type_to_schema(annotation) ==
    LET type_mapping(t) ==
            CASE t = "str" -> [type |-> "string"]
              [] t = "int" -> [type |-> "integer"]
              [] t = "float" -> [type |-> "number"]
              [] t = "bool" -> [type |-> "boolean"]
              [] t = "list" -> [type |-> "array"]
              [] t = "dict" -> [type |-> "object"]
              [] OTHER -> [type |-> "string"]
        IsNotNone(a) == ~(a[1] = "plain" /\ a[2] = "NoneType")
    IN  IF annotation[1] = "union"
        THEN LET non_none_types == SelectSeq(annotation[2], IsNotNone)
             IN  IF Len(non_none_types) = 1
                 THEN type_to_schema(non_none_types[1])
                 ELSE [type |-> "string"]
        ELSE IF annotation[1] = "plain"
             THEN type_mapping(annotation[2])
             ELSE [type |-> "string"]

\* ------------------------------------------------------ callables (inputs)
Param(n, a, d) == [name |-> n, annotation |-> a, has_default |-> d]

\* The callables an author registers.  body "any": the body returns or
\* raises whatever BodyOutcomes allows; body "echo": returns its argument a.
FuncTable ==
    [add |->
        [doc |-> <<>>, is_async |-> FALSE, body |-> "any",
         sig |-> <<Param("a", AnnPlain("int"), FALSE),
                   Param("b", AnnPlain("int"), FALSE)>>],
     greet |->
        [doc |-> <<"Greet somebody">>, is_async |-> FALSE, body |-> "any",
         sig |-> <<Param("a", AnnPlain("str"), FALSE),
                   Param("b", AnnOptional(AnnPlain("int")), TRUE)>>],
     sleep_then_echo |->
        [doc |-> <<"Sleep, then echo">>, is_async |-> TRUE, body |-> "echo",
         sig |-> <<Param("a", AnnPlain("str"), FALSE)>>],
     method |->
        [doc |-> <<>>, is_async |-> FALSE, body |-> "any",
         sig |-> <<Param("self", AnnEmpty, FALSE),
                   Param("a", AnnEmpty, FALSE),
                   Param("b", AnnAlias("list", <<AnnPlain("str")>>), TRUE)>>],
     scale |->
        [doc |-> <<>>, is_async |-> FALSE, body |-> "echo",
         sig |-> <<Param("a", AnnPlain("float"), FALSE)>>]]

\* The callables of the registration and request specifications; scale,
\* with its floating-point parameter, is registered in SpecNumeric only.
NumericFuncs == {"add", "scale"}

Funcs == DOMAIN FuncTable \ {"scale"}

\* ----------------------------------------------------------- Schema inference
RECURSIVE extract_from(_, _)
extract_from(sig, parameters) ==
    IF sig = <<>>
    THEN parameters
    ELSE LET param == Head(sig)
             param_schema ==
                 IF param.annotation[1] # "empty"
                 THEN type_to_schema(param.annotation)
                 ELSE [type |-> "string"]
         IN  IF param.name = "self"
             THEN extract_from(Tail(sig), parameters)
             ELSE extract_from(Tail(sig),
                    [parameters EXCEPT
                       !.properties = DictSet(@, param.name, param_schema),
                       !.required = IF ~param.has_default
                                    THEN Append(@, param.name)
                                    ELSE @])

\* Mutant: every parameter is marked required, default or not.
extract_parameters_all_required(signature) ==
    LET p == extract_from(signature,
                 [type |-> "object", properties |-> <<>>, required |-> <<>>])
    IN  [p EXCEPT !.required = DictKeys(p.properties)]

extract_parameters(signature) ==
    extract_from(signature,
                 [type |-> "object", properties |-> <<>>, required |-> <<>>])

\* ------------------------------------------------------------- exceptions
\* An exception object.  code is "" and details <<>> for exceptions that
\* are not MCPError; original_error is <<>> (None) or <<cause>>.
Exc(cls, message, code, details, original_error) ==
    [cls |-> cls, message |-> message, code |-> code,
     details |-> details, original_error |-> original_error]

\* The classes each exception class derives from (itself included).
Bases(cls) ==
    CASE cls \in {"ValidationError", "AuthenticationError", "APIError",
                  "TimeoutError", "ToolError", "ConfigurationError"}
            -> {cls, "MCPError", "Exception"}
      [] cls = "MCPError" -> {"MCPError", "Exception"}
      [] cls = "KeyError" -> {"KeyError", "LookupError", "Exception"}
      [] cls = "Exception" -> {"Exception"}
      [] OTHER -> {cls, "Exception"}

IsInstanceExc(e, cls) == cls \in Bases(e.cls)

\* a builtin exception such as ValueError("...") or TypeError("...")
BuiltinError(cls, message) == Exc(cls, message, "", <<>>, <<>>)

\* MCPError(message, code=UNKNOWN_ERROR, details=None, original_error=None)
MCPError(message, code, details, original_error) ==
    Exc("MCPError", message, code, details, original_error)

\* ValidationError(message, parameter=None, expected_type=None);
\* "" stands for an argument that was not given.
ValidationError(message, parameter, expected_type) ==
    LET d1 == IF parameter # "" THEN << <<"parameter", parameter>> >> ELSE <<>>
        d2 == IF expected_type # ""
              THEN Append(d1, <<"expected_type", expected_type>>)
              ELSE d1
    IN  Exc("ValidationError", message, "INVALID_PARAMETER", d2, <<>>)

\* AuthenticationError(message)
AuthenticationError(message) ==
    Exc("AuthenticationError", message, "AUTH_FAILED", <<>>, <<>>)

\* TimeoutError(message, timeout_seconds=None)
TimeoutError(message, timeout_seconds) ==
    Exc("TimeoutError", message, "TOOL_TIMEOUT",
        IF timeout_seconds # "" THEN << <<"timeout_seconds", timeout_seconds>> >>
                                ELSE <<>>,
        <<>>)

\* ToolError(message, tool_name=None)  (exit_code and stderr not given)
ToolError(message, tool_name) ==
    Exc("ToolError", message, "TOOL_EXECUTION_FAILED",
        IF tool_name # "" THEN << <<"tool_name", tool_name>> >> ELSE <<>>,
        <<>>)

\* ------------------------------------------------------- Argument Validator
\* Mutant: the integer validator tests for a text or a whole number.
validate_type_integer_accepts_text(value, expected_type) ==
    CASE expected_type = "string" -> IsInstance(value, "str")
      [] expected_type = "integer" ->
            IsInstance(value, "int") \/ IsInstance(value, "str")
      [] expected_type = "number" ->
            IsInstance(value, "int") \/ IsInstance(value, "float")
      [] expected_type = "boolean" -> IsInstance(value, "bool")
      [] expected_type = "array" -> IsInstance(value, "list")
      [] expected_type = "object" -> IsInstance(value, "dict")
      [] OTHER -> TRUE

\* Mutant: a boolean is not taken for a whole number or a number.
validate_type_rejects_bool_as_number(value, expected_type) ==
    CASE expected_type = "string" -> IsInstance(value, "str")
      [] expected_type = "integer" -> value.shape = "int"
      [] expected_type = "number" -> value.shape \in {"int", "float"}
      [] expected_type = "boolean" -> IsInstance(value, "bool")
      [] expected_type = "array" -> IsInstance(value, "list")
      [] expected_type = "object" -> IsInstance(value, "dict")
      [] OTHER -> TRUE

validate_type(value, expected_type) ==
    CASE expected_type = "string" -> IsInstance(value, "str")
      [] expected_type = "integer" -> IsInstance(value, "int")
      [] expected_type = "number" ->
            IsInstance(value, "int") \/ IsInstance(value, "float")
      [] expected_type = "boolean" -> IsInstance(value, "bool")
      [] expected_type = "array" -> IsInstance(value, "list")
      [] expected_type = "object" -> IsInstance(value, "dict")
      [] OTHER -> TRUE

\* Mutant: the pass over the required parameters is left out.
validate_arguments_types_only(tool_def, arguments) ==
    LET properties == tool_def.parameters.properties
        badtype == {i \in 1..Len(arguments) :
                       /\ DictHas(properties, arguments[i][1])
                       /\ ~validate_type(arguments[i][2],
                              DictGet(properties, arguments[i][1]).type)}
    IN  IF badtype # {}
        THEN LET param_name ==
                     arguments[CHOOSE i \in badtype : \A j \in badtype : i <= j][1]
             IN  << ValidationError(
                       <<"Invalid type for parameter ", param_name>>,
                       param_name, DictGet(properties, param_name).type) >>
        ELSE <<>>

\* Mutant: an argument whose key the contract does not declare is
\* rejected.
validate_arguments_rejects_unknown(tool_def, arguments) ==
    LET required_params == tool_def.parameters.required
        properties == tool_def.parameters.properties
        missing == {i \in 1..Len(required_params) :
                       ~DictHas(arguments, required_params[i])}
        badtype == {i \in 1..Len(arguments) :
                       \/ ~DictHas(properties, arguments[i][1])
                       \/ ~validate_type(arguments[i][2],
                              DictGet(properties, arguments[i][1]).type)}
        Min(S) == CHOOSE i \in S : \A j \in S : i <= j
    IN  IF missing # {}
        THEN LET required_param == required_params[Min(missing)]
             IN  << ValidationError(
                       <<"Missing required parameter: ", required_param>>,
                       required_param, "") >>
        ELSE IF badtype # {}
        THEN LET param_name == arguments[Min(badtype)][1]
             IN  << ValidationError(
                       <<"Invalid type for parameter ", param_name>>,
                       param_name, "") >>
        ELSE <<>>

\* Mutant: the pass over the argument types comes before the pass over
\* the required parameters.
validate_arguments_types_first(tool_def, arguments) ==
    LET required_params == tool_def.parameters.required
        properties == tool_def.parameters.properties
        missing == {i \in 1..Len(required_params) :
                       ~DictHas(arguments, required_params[i])}
        badtype == {i \in 1..Len(arguments) :
                       /\ DictHas(properties, arguments[i][1])
                       /\ ~validate_type(arguments[i][2],
                              DictGet(properties, arguments[i][1]).type)}
        Min(S) == CHOOSE i \in S : \A j \in S : i <= j
    IN  IF badtype # {}
        THEN LET param_name == arguments[Min(badtype)][1]
                 expected_type == DictGet(properties, param_name).type
             IN  << ValidationError(
                       <<"Invalid type for parameter ", param_name>>,
                       param_name, expected_type) >>
        ELSE IF missing # {}
        THEN LET required_param == required_params[Min(missing)]
             IN  << ValidationError(
                       <<"Missing required parameter: ", required_param>>,
                       required_param, "") >>
        ELSE <<>>

\* The exception _validate_arguments raises, as <<e>>, or <<>> when it
\* returns normally.
validate_arguments(tool_def, arguments) ==
    LET required_params == tool_def.parameters.required
        properties == tool_def.parameters.properties
        missing == {i \in 1..Len(required_params) :
                       ~DictHas(arguments, required_params[i])}
        badtype == {i \in 1..Len(arguments) :
                       /\ DictHas(properties, arguments[i][1])
                       /\ ~validate_type(arguments[i][2],
                              DictGet(properties, arguments[i][1]).type)}
        Min(S) == CHOOSE i \in S : \A j \in S : i <= j
    IN  IF missing # {}
        THEN LET required_param == required_params[Min(missing)]
             IN  << ValidationError(
                       <<"Missing required parameter: ", required_param>>,
                       required_param, "") >>
        ELSE IF badtype # {}
        THEN LET param_name == arguments[Min(badtype)][1]
                 expected_type == DictGet(properties, param_name).type
             IN  << ValidationError(
                       <<"Invalid type for parameter ", param_name>>,
                       param_name, expected_type) >>
        ELSE <<>>

\* ---------------------------------------------------------- calling a tool
\* What a body may do: return a value or raise an exception.
Return(val) == [t |-> "return", val |-> val, exc |-> BuiltinError("", <<>>)]
Raise(exc) == [t |-> "raise", val |-> PyNone, exc |-> exc]

BodyOutcomes ==
    {Return(PyVal("int", 5)),
     Return(PyVal("str", 3)),
     Return(PyVal("dict", 4)),
     Return(PyNone),
     Return(PyVal("object", 1)),
     Raise(BuiltinError("ValueError", <<"Task not found">>)),
     Raise(ToolError(<<"Build process failed">>, "build"))}

\* Mutant: only the arguments the callable declares are passed on.
call_function_declared_only(f, arguments, outcome) ==
    LET sig == FuncTable[f].sig
        names == {sig[i].name : i \in 1..Len(sig)}
        Declared(pair) == pair[1] \in names
        passed == SelectSeq(arguments, Declared)
        unbound == {i \in 1..Len(sig) :
                       ~sig[i].has_default /\ ~DictHas(passed, sig[i].name)}
    IN  IF unbound # {}
        THEN [ran |-> FALSE,
              out |-> Raise(BuiltinError("TypeError",
                               <<"missing required positional argument">>))]
        ELSE IF FuncTable[f].body = "echo"
        THEN [ran |-> TRUE, out |-> Return(DictGet(passed, "a"))]
        ELSE [ran |-> TRUE, out |-> outcome]

\* function(**arguments): Python binds the keywords to the signature and
\* raises TypeError on an unexpected keyword or a parameter left without a
\* value; otherwise the body runs and `outcome` is what it does.
call_function(f, arguments, outcome) ==
    LET sig == FuncTable[f].sig
        names == {sig[i].name : i \in 1..Len(sig)}
        unexpected == {i \in 1..Len(arguments) : arguments[i][1] \notin names}
        unbound == {i \in 1..Len(sig) :
                       ~sig[i].has_default /\ ~DictHas(arguments, sig[i].name)}
    IN  IF unexpected # {}
        THEN [ran |-> FALSE,
              out |-> Raise(BuiltinError("TypeError",
                               <<"got an unexpected keyword argument">>))]
        ELSE IF unbound # {}
        THEN [ran |-> FALSE,
              out |-> Raise(BuiltinError("TypeError",
                               <<"missing required positional argument">>))]
        ELSE IF FuncTable[f].body = "echo"
        THEN [ran |-> TRUE, out |-> Return(DictGet(arguments, "a"))]
        ELSE [ran |-> TRUE, out |-> outcome]

\* --------------------------------------------------------- Execution Engine
ToolDefinition(name, function, description, parameters, async_tool) ==
    [name |-> name, function |-> function, description |-> description,
     parameters |-> parameters, async_tool |-> async_tool]

\* The outcome of one _execute_tool call: the exception it raises (<<e>>)
\* or the value it returns (<<r>>); the callables it invoked, whether it
\* awaited the call, and what the call itself raised or returned.
ExecOutcome(raised, result, invoked, awaited, thrown, returned) ==
    [raised |-> raised, result |-> result, invoked |-> invoked,
     awaited |-> awaited, thrown |-> thrown, returned |-> returned]

NoExec == ExecOutcome(<<>>, <<>>, <<>>, FALSE, <<>>, <<>>)

\* Mutant: type(None) is missing from the tuple of accepted types.
IsJsonShape_without_none(result) ==
    \E t \in {"dict", "list", "str", "int", "float", "bool"} :
        IsInstance(result, t)

\* isinstance(result, (dict, list, str, int, float, bool, type(None)))
IsJsonShape(result) ==
    \E t \in {"dict", "list", "str", "int", "float", "bool", "NoneType"} :
        IsInstance(result, t)

\* Mutant: every exception is wrapped, an MCPError too.
convert_exception_wraps_all(e) ==
    Exc("MCPError", <<"Tool execution failed: ">> \o e.message,
        "UNKNOWN_ERROR", <<>>, <<e>>)

\* Lines 224-229: an MCPError is re-raised as it is, anything else is
\* wrapped in a new MCPError (whose code defaults to UNKNOWN_ERROR).
convert_exception(e) ==
    IF IsInstanceExc(e, "MCPError")
    THEN e
    ELSE MCPError(<<"Tool execution failed: ">> \o e.message,
                  "UNKNOWN_ERROR", <<>>, <<e>>)

\* Line 204: the failure for a name that is not in self.tools.
not_found(tool_name) ==
    ValidationError(<<"Tool '", tool_name, "' not found">>, "", "")

execute_tool(registry, tool_name, arguments, outcome) ==
    IF ~DictHas(registry, tool_name)
    THEN ExecOutcome(<< not_found(tool_name) >>, <<>>, <<>>, FALSE, <<>>, <<>>)
    ELSE LET tool_def == DictGet(registry, tool_name)
             invalid == validate_arguments(tool_def, arguments)
         IN  IF invalid # <<>>
             THEN ExecOutcome(<< convert_exception(invalid[1]) >>, <<>>, <<>>,
                              FALSE, <<>>, <<>>)
             ELSE LET call == call_function(tool_def.function, arguments, outcome)
                      invoked == << tool_def.function >>
                  IN  IF call.out.t = "raise"
                      THEN ExecOutcome(<< convert_exception(call.out.exc) >>,
                                       <<>>, invoked, tool_def.async_tool,
                                       << call.out.exc >>, <<>>)
                      ELSE LET result == call.out.val
                           IN  ExecOutcome(
                                  <<>>,
                                  << IF ~IsJsonShape(result)
                                     THEN ResultDict(PyStr(result))
                                     ELSE result >>,
                                  invoked, tool_def.async_tool,
                                  <<>>, << result >>)

\* ------------------------------------------------- Error Taxonomy & Handler
\* The dataclass ErrorResponse.  details: Optional[Dict] and trace_id:
\* Optional[str] are <<>> for None and <<x>> for the value x, so that an
\* empty dict (<< <<>> >>) and an empty text (<<"">>) differ from None.
ErrorResponse(code, message, details, trace_id) ==
    [code |-> code, message |-> message, details |-> details,
     trace_id |-> trace_id]

\* Python truthiness of an Optional dict / Optional str.
Truthy(opt, empty) == opt # <<>> /\ opt[1] # empty

\* Mutant: details is written whenever it is not None, empty or not.
to_dict_details_when_present(r) ==
    LET has_details == r.details # <<>>
        has_trace_id == Truthy(r.trace_id, "")
    IN  [error |->
          CASE has_details /\ has_trace_id ->
                 [code |-> r.code, message |-> r.message,
                  details |-> r.details[1], trace_id |-> r.trace_id[1]]
            [] has_details /\ ~has_trace_id ->
                 [code |-> r.code, message |-> r.message,
                  details |-> r.details[1]]
            [] ~has_details /\ has_trace_id ->
                 [code |-> r.code, message |-> r.message,
                  trace_id |-> r.trace_id[1]]
            [] OTHER -> [code |-> r.code, message |-> r.message]]

\* ErrorResponse.to_dict: details and trace_id appear only when truthy.
to_dict(r) ==
    LET base == [code |-> r.code, message |-> r.message]
        has_details == Truthy(r.details, <<>>)
        has_trace_id == Truthy(r.trace_id, "")
    IN  [error |->
          CASE has_details /\ has_trace_id ->
                 [code |-> r.code, message |-> r.message,
                  details |-> r.details[1], trace_id |-> r.trace_id[1]]
            [] has_details /\ ~has_trace_id ->
                 [code |-> r.code, message |-> r.message,
                  details |-> r.details[1]]
            [] ~has_details /\ has_trace_id ->
                 [code |-> r.code, message |-> r.message,
                  trace_id |-> r.trace_id[1]]
            [] OTHER -> base]

\* MCPError.to_response: details is self.details, always a dict.
to_response(e) == ErrorResponse(e.code, e.message, << e.details >>, <<>>)

\* The default mappings, in the order _setup_default_mappings inserts them.
DefaultMappings ==
    << <<"ValidationError", "_handle_validation_error">>,
       <<"AuthenticationError", "_handle_auth_error">>,
       <<"APIError", "_handle_api_error">>,
       <<"TimeoutError", "_handle_timeout_error">>,
       <<"ToolError", "_handle_tool_error">>,
       <<"ConfigurationError", "_handle_config_error">>,
       <<"MCPError", "_handle_mcp_error">>,
       <<"Exception", "_handle_generic_error">> >>

\* ErrorHandler(include_traceback)
ErrorHandler(include_traceback) ==
    [include_traceback |-> include_traceback, error_mappings |-> DefaultMappings]

\* Mutant: the traceback is attached whatever include_traceback says.
apply_handler_always_traceback(eh, h, e) ==
    LET tb(details) == DictSet(details, "traceback", "format_exc")
    IN  CASE h \in {"_handle_validation_error", "_handle_api_error",
                    "_handle_tool_error", "_handle_mcp_error"} ->
                [to_response(e) EXCEPT !.details = << tb(@[1]) >>]
          [] h \in {"_handle_auth_error", "_handle_timeout_error",
                    "_handle_config_error"} ->
                to_response(e)
          [] h = "custom_handler" ->
                ErrorResponse("RESOURCE_NOT_FOUND", <<"custom: ">> \o e.message,
                              <<>>, <<"trace-1">>)
          [] OTHER ->
                ErrorResponse("UNKNOWN_ERROR", e.message,
                              << tb(<< <<"error_type", e.cls>> >>) >>, <<>>)

\* One conversion function applied to an error.  custom_handler is a
\* conversion an author registers: it answers with its own code and a
\* trace identifier and no details.
apply_handler(eh, h, e) ==
    LET tb(details) == IF eh.include_traceback
                       THEN DictSet(details, "traceback", "format_exc")
                       ELSE details
    IN  CASE h \in {"_handle_validation_error", "_handle_api_error",
                    "_handle_tool_error", "_handle_mcp_error"} ->
                [to_response(e) EXCEPT !.details = << tb(@[1]) >>]
          [] h \in {"_handle_auth_error", "_handle_timeout_error",
                    "_handle_config_error"} ->
                to_response(e)
          [] h = "custom_handler" ->
                ErrorResponse("RESOURCE_NOT_FOUND", <<"custom: ">> \o e.message,
                              <<>>, <<"trace-1">>)
          [] OTHER ->
                ErrorResponse("UNKNOWN_ERROR", e.message,
                              << tb(<< <<"error_type", e.cls>> >>) >>, <<>>)

\* The conversion handle_error picks: that of the first pair, in the
\* dict's order, whose type the error is an instance of; the generic one
\* when the loop finds none.
selected_handler(eh, e) ==
    LET matching == {i \in 1..Len(eh.error_mappings) :
                        IsInstanceExc(e, eh.error_mappings[i][1])}
    IN  IF matching # {}
        THEN eh.error_mappings[CHOOSE i \in matching :
                                  \A j \in matching : i <= j][2]
        ELSE "_handle_generic_error"

handle_error(eh, e) == apply_handler(eh, selected_handler(eh, e), e)

\* The handlers that start from error.to_response(): the response's
\* details is then the very dict object that is error.details
\* (`details=self.details`, no copy).
details_shared(h) ==
    h \in {"_handle_validation_error", "_handle_auth_error",
           "_handle_api_error", "_handle_timeout_error",
           "_handle_tool_error", "_handle_config_error",
           "_handle_mcp_error"}

\* The error object once handler h has returned: the assignment
\* response.details["traceback"] = ... writes into the dict the error
\* shares with the response.
error_after(eh, h, e) ==
    IF /\ eh.include_traceback
       /\ h \in {"_handle_validation_error", "_handle_api_error",
                 "_handle_tool_error", "_handle_mcp_error"}
    THEN [e EXCEPT !.details = DictSet(@, "traceback", "format_exc")]
    ELSE e

\* ErrorHandler.register_error_handler
register_error_handler(eh, error_type, handler) ==
    [eh EXCEPT !.error_mappings = DictSet(@, error_type, handler)]

\* -------------------------------------------------- explicit-dispatch adapter
TextContent(x) == << [type |-> "text", text |-> [str_of |-> x]] >>

\* SDKWrapper._handle_list_tools: one Tool per registry entry.
handle_list_tools(registry) ==
    [i \in 1..Len(registry) |->
        [name |-> registry[i][1],
         description |-> registry[i][2].description,
         inputSchema |-> registry[i][2].parameters]]

\* SDKWrapper._handle_call_tool: what goes back to the transport, a
\* response (<<envelope>>) or an exception that escapes (<<e>>), and the
\* errors it gave to error_handler.handle_error, one per call, in order.
Handled(exec, response, escaped, converted) ==
    [exec |-> exec, response |-> response, escaped |-> escaped,
     converted |-> converted]

\* Mutant: the handler has no try/except around _execute_tool.
handle_call_tool_uncaught(registry, eh, tool_name, arguments, outcome) ==
    LET exec == execute_tool(registry, tool_name, arguments, outcome)
    IN  IF exec.raised = <<>>
        THEN Handled(exec, << [content |-> TextContent(exec.result[1])] >>,
                     <<>>, <<>>)
        ELSE Handled(exec, <<>>, exec.raised, <<>>)

\* Mutant: the except clause answers with the error's own code and
\* message and does not call the error handler.
handle_call_tool_unconverted(registry, eh, tool_name, arguments, outcome) ==
    LET exec == execute_tool(registry, tool_name, arguments, outcome)
    IN  IF exec.raised = <<>>
        THEN Handled(exec, << [content |-> TextContent(exec.result[1])] >>,
                     <<>>, <<>>)
        ELSE Handled(exec,
                << [isError |-> TRUE,
                    content |-> TextContent(
                        [error |-> [code |-> exec.raised[1].code,
                                    message |-> exec.raised[1].message]])] >>,
                <<>>, <<>>)

handle_call_tool(registry, eh, tool_name, arguments, outcome) ==
    LET exec == execute_tool(registry, tool_name, arguments, outcome)
    IN  IF exec.raised = <<>>
        THEN Handled(exec,
                << [content |-> TextContent(exec.result[1])] >>,
                <<>>, <<>>)
        ELSE Handled(exec,
                << [isError |-> TRUE,
                    content |-> TextContent(
                        to_dict(handle_error(eh, exec.raised[1])))] >>,
                <<>>, << exec.raised[1] >>)

\* ------------------------------------------------------------------- inputs
ToolNames == Funcs \cup {"alias"}

\* name / description arguments of tool(); "" and <<>> stand for None.
NameChoices == {"", "alias"}

DescriptionChoices == {<<>>, <<"Custom description">>}

UriPatterns == {"task://{task_id}"}

ResourceFuncs == {"greet", "sleep_then_echo"}

ArgKeys == {"a", "b", "x"}

ArgValues == {PyVal("str", 1), PyVal("int", 2), PyVal("bool", 1)}

RECURSIVE ArgDicts(_)
ArgDicts(n) ==
    IF n = 0
    THEN {<<>>}
    ELSE LET shorter == ArgDicts(n - 1)
         IN  shorter \cup
             {Append(d, <<k, val>>) :
                 d \in {e \in shorter : Len(e) = n - 1},
                 k \in ArgKeys, val \in ArgValues}

\* Argument mappings: every key at most once.
Arguments ==
    {d \in ArgDicts(MaxArgs) :
        \A i, j \in 1..Len(d) : d[i][1] = d[j][1] => i = j}

\* ---------------------------------------------------------------- the state
VARIABLES
    kind,                \* "fastmcp" (FastMCPWrapper) or "sdk" (SDKWrapper)
    tools,               \* self.tools: name -> ToolDefinition
    resources,           \* self.resources: uri pattern -> callable
    error_handler,       \* self.error_handler
    server,              \* self._server: 0 is None, else the object's id
    created,             \* external server objects constructed so far
    handlers,            \* setRequestHandler calls received by the router
    forwarded_tools,     \* callables the FastMCP object received via tool()
    forwarded_resources, \* <<uri, callable>> it received via resource()
    transport_starts,    \* how often self._server.run(transport) was entered
    active,              \* the transport loop is running
    last,                \* the request in hand and what its handler returned
    conversion,          \* the last use of the ErrorHandler / ErrorResponse
    tasks,               \* call-tool handler coroutines on the event loop
    startup,             \* backend availability and how construction ended
    inference            \* the signature being declared and its contract

vars == <<kind, tools, resources, error_handler, server, created, handlers,
          forwarded_tools, forwarded_resources, transport_starts, active,
          last, conversion, tasks, startup, inference>>

\* The variables of the adapter object itself.
adapter_vars == <<kind, tools, resources, error_handler, server, created,
                  handlers, forwarded_tools, forwarded_resources,
                  transport_starts, active, last>>

NoHandled == Handled(NoExec, <<>>, <<>>, <<>>)

\* No handle_error / to_dict call has been made.
NoConversion == [op |-> "idle"]

\* A signature (inspect.Signature.parameters, in order) and the contract
\* _extract_parameters gives it.
Inference(sig) == [sig |-> sig, contract |-> extract_parameters(sig)]

\* No parameter has been declared.
NoInference == Inference(<<>>)

\* FASTMCP_AVAILABLE / SDK_AVAILABLE as the imports at module load set
\* them, the construction last attempted ("" for none; a class name or
\* the server_type given to create_server) and the exception it raised
\* (<<e>>).
Startup(fastmcp_available, sdk_available, attempt, raised) ==
    [fastmcp_available |-> fastmcp_available,
     sdk_available |-> sdk_available, attempt |-> attempt, raised |-> raised]

\* Both backends import and construction has succeeded.
Started == Startup(TRUE, TRUE, "", <<>>)

Last(op, name, arguments, handled, listing) ==
    [op |-> op, name |-> name, arguments |-> arguments,
     handled |-> handled, listing |-> listing]

Idle == Last("idle", "", <<>>, NoHandled, <<>>)

\* BaseMCPServer.__init__, for either adapter class.
Init ==
    /\ kind \in {"fastmcp", "sdk"}
    /\ tools = <<>>
    /\ resources = <<>>
    /\ error_handler = ErrorHandler(FALSE)
    /\ server = 0
    /\ created = 0
    /\ handlers = <<>>
    /\ forwarded_tools = <<>>
    /\ forwarded_resources = <<>>
    /\ transport_starts = 0
    /\ active = FALSE
    /\ last = Idle
    /\ conversion = NoConversion
    /\ tasks = <<>>
    /\ startup = Started
    /\ inference = NoInference

\* ------------------------------------------------------------- registration
\* self._extract_parameters(inspect.signature(func)) for each callable.
Contracts == [f \in DOMAIN FuncTable |-> extract_parameters(FuncTable[f].sig)]

\* The ToolDefinition that tool(name, description)(func) builds.
tool_decorator(func, name, description) ==
    LET tool_name == IF name # "" THEN name ELSE func
        tool_description ==
            IF description # <<>> THEN description
            ELSE IF FuncTable[func].doc # <<>> THEN FuncTable[func].doc
            ELSE <<"Tool: ", tool_name>>
        parameters == Contracts[func]
        is_async == FuncTable[func].is_async
    IN  ToolDefinition(tool_name, func, tool_description, parameters, is_async)

\* Mutant: once the external server exists, a registration is handed to
\* it at once.
RegisterTool_forwards_when_running(func, name, description) ==
    LET tool_def == tool_decorator(func, name, description)
    IN  /\ last = Idle
        /\ DictHas(tools, tool_def.name) \/ Len(tools) < MaxTools
        /\ tools' = DictSet(tools, tool_def.name, tool_def)
        /\ forwarded_tools' = IF kind = "fastmcp" /\ server # 0
                              THEN Append(forwarded_tools, func)
                              ELSE forwarded_tools
        /\ UNCHANGED <<kind, resources, error_handler, server, created,
                       handlers, forwarded_resources,
                       transport_starts, active, last>>
        /\ UNCHANGED <<conversion, tasks, startup, inference>>

\* @server.tool(name, description) applied to func
RegisterTool(func, name, description) ==
    LET tool_def == tool_decorator(func, name, description)
    IN  /\ last = Idle
        /\ DictHas(tools, tool_def.name) \/ Len(tools) < MaxTools
        /\ tools' = DictSet(tools, tool_def.name, tool_def)
        /\ UNCHANGED <<kind, resources, error_handler, server, created,
                       handlers, forwarded_tools, forwarded_resources,
                       transport_starts, active, last>>
        /\ UNCHANGED <<conversion, tasks, startup, inference>>

\* @server.resource(uri_pattern) applied to func
RegisterResource(uri_pattern, func) ==
    /\ last = Idle
    /\ resources' = DictSet(resources, uri_pattern, func)
    /\ UNCHANGED <<kind, tools, error_handler, server, created, handlers,
                   forwarded_tools, forwarded_resources, transport_starts,
                   active, last>>
    /\ UNCHANGED <<conversion, tasks, startup, inference>>

\* ---------------------------------------------------------------------- run
\* Mutant: run() replays the registry on every call, not only on the one
\* that constructs the server.
FastMCPRun_replays_every_run ==
    /\ kind = "fastmcp"
    /\ last = Idle
    /\ IF server = 0
       THEN /\ server' = created + 1
            /\ created' = created + 1
       ELSE UNCHANGED <<server, created>>
    /\ forwarded_tools' = forwarded_tools \o
          [i \in 1..Len(tools) |-> tools[i][2].function]
    /\ forwarded_resources' = forwarded_resources \o resources
    /\ last' = Last("run", IF server = 0 THEN "first" ELSE "again", <<>>,
                    NoHandled, <<>>)
    /\ UNCHANGED <<kind, tools, resources, error_handler, handlers,
                   transport_starts, active>>
    /\ UNCHANGED <<conversion, tasks, startup, inference>>

\* Mutant: the replay hands the external server the registry key of each
\* entry.
FastMCPRun_forwards_names ==
    /\ kind = "fastmcp"
    /\ last = Idle
    /\ IF server = 0
       THEN /\ server' = created + 1
            /\ created' = created + 1
            /\ forwarded_tools' = forwarded_tools \o
                  [i \in 1..Len(tools) |-> tools[i][1]]
            /\ forwarded_resources' = forwarded_resources \o resources
       ELSE UNCHANGED <<server, created, forwarded_tools, forwarded_resources>>
    /\ last' = Last("run", IF server = 0 THEN "first" ELSE "again", <<>>,
                    NoHandled, <<>>)
    /\ UNCHANGED <<kind, tools, resources, error_handler, handlers,
                   transport_starts, active>>
    /\ UNCHANGED <<conversion, tasks, startup, inference>>

\* FastMCPWrapper.run: construct once, replay the registry onto the new
\* FastMCP object, return it.
FastMCPRun ==
    /\ kind = "fastmcp"
    /\ last = Idle
    /\ IF server = 0
       THEN /\ server' = created + 1
            /\ created' = created + 1
            /\ forwarded_tools' = forwarded_tools \o
                  [i \in 1..Len(tools) |-> tools[i][2].function]
            /\ forwarded_resources' = forwarded_resources \o resources
       ELSE UNCHANGED <<server, created, forwarded_tools, forwarded_resources>>
    /\ last' = Last("run", IF server = 0 THEN "first" ELSE "again", <<>>,
                    NoHandled, <<>>)
    /\ UNCHANGED <<kind, tools, resources, error_handler, handlers,
                   transport_starts, active>>
    /\ UNCHANGED <<conversion, tasks, startup, inference>>

\* Mutant: run() constructs the server without testing self._server.
SDKRun_always_constructs ==
    /\ kind = "sdk"
    /\ last = Idle
    /\ ~active
    /\ transport_starts < MaxRuns
    /\ server' = created + 1
    /\ created' = created + 1
    /\ handlers' = handlers \o
          <<"ListToolsRequestSchema", "CallToolRequestSchema">>
    /\ transport_starts' = transport_starts + 1
    /\ active' = TRUE
    /\ UNCHANGED <<kind, tools, resources, error_handler, forwarded_tools,
                   forwarded_resources, last>>
    /\ UNCHANGED <<conversion, tasks, startup, inference>>

\* SDKWrapper.run: construct once and install the two handlers, then start
\* a stdio transport and enter the server's loop.
SDKRun ==
    /\ kind = "sdk"
    /\ last = Idle
    /\ ~active
    /\ transport_starts < MaxRuns
    /\ IF server = 0
       THEN /\ server' = created + 1
            /\ created' = created + 1
            /\ handlers' = handlers \o
                  <<"ListToolsRequestSchema", "CallToolRequestSchema">>
       ELSE UNCHANGED <<server, created, handlers>>
    /\ transport_starts' = transport_starts + 1
    /\ active' = TRUE
    /\ UNCHANGED <<kind, tools, resources, error_handler, forwarded_tools,
                   forwarded_resources, last>>
    /\ UNCHANGED <<conversion, tasks, startup, inference>>

\* The transport reaches end of input: self._server.run(transport) returns
\* and with it asyncio.run and run().
TransportClosed ==
    /\ active
    /\ last = Idle
    /\ active' = FALSE
    /\ UNCHANGED <<kind, tools, resources, error_handler, server, created,
                   handlers, forwarded_tools, forwarded_resources,
                   transport_starts, last>>
    /\ UNCHANGED <<conversion, tasks, startup, inference>>

\* ----------------------------------------------------------------- requests
\* The transport delivers a list-tools request to the installed handler.
ListTools ==
    /\ active
    /\ last = Idle
    /\ "ListToolsRequestSchema" \in Range(handlers)
    /\ last' = Last("list_tools", "", <<>>, NoHandled, handle_list_tools(tools))
    /\ UNCHANGED <<kind, tools, resources, error_handler, server, created,
                   handlers, forwarded_tools, forwarded_resources,
                   transport_starts, active>>
    /\ UNCHANGED <<conversion, tasks, startup, inference>>

\* What the body of the called tool may do in this call; a single
\* placeholder when the call never reaches a body that chooses.
OutcomeChoices(registry, tool_name, arguments) ==
    IF /\ DictHas(registry, tool_name)
       /\ validate_arguments(DictGet(registry, tool_name), arguments) = <<>>
       /\ call_function(DictGet(registry, tool_name).function, arguments,
                        Return(PyNone)).ran
       /\ FuncTable[DictGet(registry, tool_name).function].body = "any"
    THEN BodyOutcomes
    ELSE {Return(PyNone)}

\* Mutant: a call that fails takes the tool out of the registry.
CallTool_drops_failed_tool(tool_name, arguments) ==
    /\ active
    /\ last = Idle
    /\ "CallToolRequestSchema" \in Range(handlers)
    /\ \E outcome \in OutcomeChoices(tools, tool_name, arguments) :
          LET handled == handle_call_tool(tools, error_handler, tool_name,
                                          arguments, outcome)
              Other(pair) == pair[1] # tool_name
          IN  /\ last' = Last("call_tool", tool_name, arguments, handled, <<>>)
              /\ tools' = IF handled.exec.raised # <<>>
                          THEN SelectSeq(tools, Other)
                          ELSE tools
    /\ UNCHANGED <<kind, resources, error_handler, server, created,
                   handlers, forwarded_tools, forwarded_resources,
                   transport_starts, active>>
    /\ UNCHANGED <<conversion, tasks, startup, inference>>

\* The transport delivers a call-tool request to the installed handler.
CallTool(tool_name, arguments) ==
    /\ active
    /\ last = Idle
    /\ "CallToolRequestSchema" \in Range(handlers)
    /\ \E outcome \in OutcomeChoices(tools, tool_name, arguments) :
          last' = Last("call_tool", tool_name, arguments,
                       handle_call_tool(tools, error_handler, tool_name,
                                        arguments, outcome),
                       <<>>)
    /\ UNCHANGED <<kind, tools, resources, error_handler, server, created,
                   handlers, forwarded_tools, forwarded_resources,
                   transport_starts, active>>
    /\ UNCHANGED <<conversion, tasks, startup, inference>>

\* The caller (the transport for a request, the author's script for run)
\* takes what the operation returned; the next operation can begin.
Completed ==
    /\ last # Idle
    /\ last' = Idle
    /\ UNCHANGED <<kind, tools, resources, error_handler, server, created,
                   handlers, forwarded_tools, forwarded_resources,
                   transport_starts, active>>
    /\ UNCHANGED <<conversion, tasks, startup, inference>>

\* ------------------------------------------------------- the error handler
\* Exception types an author registers a conversion for: two builtin
\* types the defaults do not name (KeyError derives from LookupError), one
\* the defaults name, and the catch-all.
ErrorTypes == {"KeyError", "LookupError", "ValidationError", "Exception"}

CustomHandlers == {"custom_handler"}

\* Errors given to handle_error.
Errors ==
    {ValidationError(<<"Invalid type for parameter ", "a">>, "a", "integer"),
     not_found("missing_tool"),
     AuthenticationError(<<"Authentication failed">>),
     TimeoutError(<<"Operation timed out">>, ""),
     ToolError(<<"Build process failed">>, "build"),
     MCPError(<<"Server misconfigured">>, "UNKNOWN_ERROR", <<>>, <<>>),
     convert_exception(BuiltinError("ValueError", <<"Task not found">>)),
     BuiltinError("ValueError", <<"Task not found">>),
     BuiltinError("KeyError", <<"task_id">>),
     BuiltinError("LookupError", <<"no such entry">>)}

\* ErrorResponse objects given to to_dict: details None, {} or a mapping,
\* trace_id None, "" or a text.
ErrorResponses ==
    {ErrorResponse(code, <<"Operation failed">>, details, trace_id) :
        code \in {"UNKNOWN_ERROR", "INVALID_PARAMETER"},
        details \in {<<>>, << <<>> >>, << << <<"parameter", "a">> >> >>},
        trace_id \in {<<>>, <<"">>, <<"trace-1">>}}

\* An adapter constructed with error_handler=ErrorHandler(include_traceback).
InitHandler ==
    /\ kind = "sdk"
    /\ tools = <<>>
    /\ resources = <<>>
    /\ error_handler \in {ErrorHandler(FALSE), ErrorHandler(TRUE)}
    /\ server = 0
    /\ created = 0
    /\ handlers = <<>>
    /\ forwarded_tools = <<>>
    /\ forwarded_resources = <<>>
    /\ transport_starts = 0
    /\ active = FALSE
    /\ last = Idle
    /\ conversion = NoConversion
    /\ tasks = <<>>
    /\ startup = Started
    /\ inference = NoInference

\* error_handler.register_error_handler(error_type, handler)
RegisterErrorHandler(error_type, handler) ==
    /\ conversion = NoConversion
    /\ error_handler' = register_error_handler(error_handler, error_type, handler)
    /\ error_handler' # error_handler
    /\ UNCHANGED <<kind, tools, resources, server, created, handlers,
                   forwarded_tools, forwarded_resources, transport_starts,
                   active, last, conversion, tasks, startup, inference>>

\* error_handler.handle_error(e)
HandleError(e) ==
    /\ conversion = NoConversion
    /\ conversion' = [op |-> "handle_error", error |-> e,
                      handler |-> selected_handler(error_handler, e),
                      response |-> handle_error(error_handler, e),
                      error_after |->
                          error_after(error_handler,
                                      selected_handler(error_handler, e), e),
                      shares_details |->
                          details_shared(selected_handler(error_handler, e))]
    /\ UNCHANGED <<adapter_vars, tasks, startup, inference>>

\* r.to_dict() on an ErrorResponse r
Serialize(r) ==
    /\ conversion = NoConversion
    /\ conversion' = [op |-> "to_dict", response |-> r, wire |-> to_dict(r)]
    /\ UNCHANGED <<adapter_vars, tasks, startup, inference>>

\* The caller takes the result.
ConversionDone ==
    /\ conversion # NoConversion
    /\ conversion' = NoConversion
    /\ UNCHANGED <<adapter_vars, tasks, startup, inference>>

\* ------------------------------------------------------ concurrent requests
\* One _handle_call_tool coroutine per request on the event loop that
\* asyncio.run started.  pc: "none" (no request), "pending" (task created,
\* not yet run), "suspended" (inside `await tool_def.function(**arguments)`,
\* the tool's own await has yielded to the loop), "done" (returned).
\* frame is the tool_def local the suspended coroutine keeps (<<>> or
\* <<tool_def>>); started_during is the set of tasks that were suspended
\* when this one ran.
TaskIds == 1..MaxTasks

Task(pc, tool_name, arguments, frame, handled, started_during) ==
    [pc |-> pc, tool_name |-> tool_name, arguments |-> arguments,
     frame |-> frame, handled |-> handled, started_during |-> started_during]

NoTask == Task("none", "", <<>>, <<>>, NoHandled, {})

\* The tools of examples/async_task_example.py in kind: one asynchronous
\* tool that sleeps and echoes, one synchronous tool.
AsyncFuncs == {"sleep_then_echo", "add"}

AsyncArguments ==
    { << <<"a", PyVal("str", 1)>> >>,
      << <<"a", PyVal("int", 2)>>, <<"b", PyVal("int", 2)>> >> }

\* What a synchronous body does in one uninterrupted step.
SyncOutcomes(registry, tool_name, arguments) ==
    OutcomeChoices(registry, tool_name, arguments) \cap
        {Return(PyNone), Raise(BuiltinError("ValueError", <<"Task not found">>))}

\* The awaited coroutine yields to the event loop: the tool is
\* asynchronous, the call bound its arguments and the body is the one
\* that sleeps before it returns.
Suspends(exec) ==
    /\ exec.awaited
    /\ exec.invoked # <<>>
    /\ exec.returned # <<>>
    /\ FuncTable[exec.invoked[1]].body = "echo"

\* An SDKWrapper before run().
InitAsync ==
    /\ kind = "sdk"
    /\ tools = <<>>
    /\ resources = <<>>
    /\ error_handler = ErrorHandler(FALSE)
    /\ server = 0
    /\ created = 0
    /\ handlers = <<>>
    /\ forwarded_tools = <<>>
    /\ forwarded_resources = <<>>
    /\ transport_starts = 0
    /\ active = FALSE
    /\ last = Idle
    /\ conversion = NoConversion
    /\ tasks = [t \in TaskIds |-> NoTask]
    /\ startup = Started
    /\ inference = NoInference

\* The transport reads a call-tool request and the server creates the
\* task that will run the handler; requests take the task slots in order.
Deliver(t, tool_name, arguments) ==
    /\ active
    /\ "CallToolRequestSchema" \in Range(handlers)
    /\ tasks[t].pc = "none"
    /\ \A u \in TaskIds : u < t => tasks[u].pc # "none"
    /\ tasks' = [tasks EXCEPT
                    ![t] = Task("pending", tool_name, arguments, <<>>,
                                NoHandled, {})]
    /\ UNCHANGED <<adapter_vars, conversion, startup, inference>>

\* What _handle_call_tool makes of task t's request when it is run now,
\* one result per thing the tool's body may do.
StartOutcomes(t) ==
    {handle_call_tool(tools, error_handler, tasks[t].tool_name,
                      tasks[t].arguments, outcome) :
        outcome \in SyncOutcomes(tools, tasks[t].tool_name, tasks[t].arguments)}

\* Mutant: a handler starts only when no other handler is suspended, as
\* if the tool were waited for with the loop held.
RunHandler_waits_for_suspended(t, outcomes) ==
    /\ tasks[t].pc = "pending"
    /\ \A u \in TaskIds : tasks[u].pc # "suspended"
    /\ \E handled \in outcomes :
          tasks' = [tasks EXCEPT
              ![t] = IF Suspends(handled.exec)
                     THEN Task("suspended", @.tool_name, @.arguments,
                               << DictGet(tools, @.tool_name) >>,
                               NoHandled, {})
                     ELSE Task("done", @.tool_name, @.arguments, <<>>,
                               handled, {})]
    /\ UNCHANGED <<adapter_vars, conversion, startup, inference>>

\* The event loop runs the handler of task t from its start to its first
\* yield, with one of `outcomes` as what the handler makes of the
\* request: lookup and validation, then either the whole synchronous tool
\* and the reply, or the asynchronous tool up to the await where it
\* suspends.
RunHandler(t, outcomes) ==
    /\ tasks[t].pc = "pending"
    /\ \E handled \in outcomes :
          LET suspended == {u \in TaskIds : tasks[u].pc = "suspended"}
          IN  tasks' = [tasks EXCEPT
                  ![t] = IF Suspends(handled.exec)
                         THEN Task("suspended", @.tool_name, @.arguments,
                                   << DictGet(tools, @.tool_name) >>,
                                   NoHandled, suspended)
                         ELSE Task("done", @.tool_name, @.arguments, <<>>,
                                   handled, suspended)]
    /\ UNCHANGED <<adapter_vars, conversion, startup, inference>>

StartTask(t) == RunHandler(t, StartOutcomes(t))

\* The awaited sleep is over: the loop resumes the handler, which takes
\* the tool's return value through the rest of _execute_tool and replies.
ResumeTask(t) ==
    /\ tasks[t].pc = "suspended"
    /\ tasks' = [tasks EXCEPT
            ![t] = Task("done", @.tool_name, @.arguments, <<>>,
                        handle_call_tool(<< <<@.tool_name, @.frame[1]>> >>,
                                         error_handler, @.tool_name,
                                         @.arguments, Return(PyNone)),
                        @.started_during)]
    /\ UNCHANGED <<adapter_vars, conversion, startup, inference>>

\* -------------------------------------------------- declaring a signature
\* Types a parameter is declared with: the six classes of the table, a
\* class outside it, and sequences / mappings that declare their element
\* types.
DeclaredTypes ==
    {AnnPlain(t) : t \in {"str", "int", "float", "bool", "list", "dict", "object"}}
    \cup {AnnAlias("list", <<AnnPlain("str")>>)}

\* Every form a declaration takes: none, T, Optional[T] (which is
\* Union[T, None]), Union[None, T], T | None, and unions of two types
\* with and without None.
Annotations ==
    {AnnEmpty}
    \cup DeclaredTypes
    \cup {AnnOptional(a) : a \in DeclaredTypes}
    \cup {AnnUnion(<<AnnPlain("NoneType"), a>>) : a \in DeclaredTypes}
    \cup {AnnUnionType(<<a, AnnPlain("NoneType")>>) : a \in DeclaredTypes}
    \cup {AnnUnion(<<AnnPlain("int"), AnnPlain("str")>>),
          AnnUnion(<<AnnPlain("int"), AnnPlain("str"), AnnPlain("NoneType")>>)}

ParamNames == <<"a", "b", "c", "d">>

\* An SDKWrapper; no callable has been inspected.
InitSchema ==
    /\ kind = "sdk"
    /\ tools = <<>>
    /\ resources = <<>>
    /\ error_handler = ErrorHandler(FALSE)
    /\ server = 0
    /\ created = 0
    /\ handlers = <<>>
    /\ forwarded_tools = <<>>
    /\ forwarded_resources = <<>>
    /\ transport_starts = 0
    /\ active = FALSE
    /\ last = Idle
    /\ conversion = NoConversion
    /\ tasks = <<>>
    /\ startup = Started
    /\ inference = NoInference

\* The callable under inspection has one more parameter, declared with
\* `annotation` and with or without a default; _extract_parameters is
\* applied to the whole signature.
Declare(annotation, has_default) ==
    /\ Len(inference.sig) < MaxParams
    /\ inference' = Inference(Append(inference.sig,
                        Param(ParamNames[Len(inference.sig) + 1],
                              annotation, has_default)))
    /\ UNCHANGED <<adapter_vars, conversion, tasks, startup>>

\* ------------------------------------------------------------ construction
\* What a constructor call or create_server() gives: the class of the
\* adapter object that now exists ("none" when the call raised) and the
\* exception that left the call (<<e>>).
Constructed(cls, raised) == [kind |-> cls, raised |-> raised]

\* Mutant: the constructors do not test the availability flags.
adapter_init_unchecked(cls, st) == Constructed(cls, <<>>)

\* FastMCPWrapper.__init__ / SDKWrapper.__init__: the availability test
\* comes before BaseMCPServer.__init__, so a raise leaves no object.
adapter_init(cls, st) ==
    IF cls = "fastmcp"
    THEN IF ~st.fastmcp_available
         THEN Constructed("none",
                 << BuiltinError("ImportError",
                       <<"FastMCP not available. Install with: pip install mcp">>) >>)
         ELSE Constructed("fastmcp", <<>>)
    ELSE IF ~st.sdk_available
         THEN Constructed("none",
                 << BuiltinError("ImportError",
                       <<"MCP SDK not available. Install with: pip install mcp">>) >>)
         ELSE Constructed("sdk", <<>>)

\* create_server(server_type, **kwargs)
create_server(server_type, st) ==
    LET resolved ==
            IF server_type = "auto"
            THEN IF st.fastmcp_available THEN "fastmcp"
                 ELSE IF st.sdk_available THEN "sdk"
                 ELSE ""
            ELSE server_type
    IN  IF resolved = ""
        THEN Constructed("none",
                << BuiltinError("ImportError",
                      <<"Neither FastMCP nor MCP SDK available">>) >>)
        ELSE IF resolved \in {"fastmcp", "sdk"}
        THEN adapter_init(resolved, st)
        ELSE Constructed("none",
                << BuiltinError("ValueError",
                      <<"Unknown server type: ", resolved>>) >>)

ServerTypes == {"auto", "fastmcp", "sdk", "http"}

\* The module has been imported, with either backend importable or not;
\* no adapter has been constructed.
InitStartup ==
    /\ kind = "none"
    /\ tools = <<>>
    /\ resources = <<>>
    /\ error_handler = ErrorHandler(FALSE)
    /\ server = 0
    /\ created = 0
    /\ handlers = <<>>
    /\ forwarded_tools = <<>>
    /\ forwarded_resources = <<>>
    /\ transport_starts = 0
    /\ active = FALSE
    /\ last = Idle
    /\ conversion = NoConversion
    /\ tasks = <<>>
    /\ startup \in {Startup(f, s, "", <<>>) : f \in BOOLEAN, s \in BOOLEAN}
    /\ inference = NoInference

\* FastMCPWrapper(...) or SDKWrapper(...) called directly.
Construct(cls) ==
    LET made == adapter_init(cls, startup)
    IN  /\ kind = "none"
        /\ kind' = made.kind
        /\ startup' = [startup EXCEPT
                          !.attempt = IF cls = "fastmcp" THEN "FastMCPWrapper"
                                      ELSE "SDKWrapper",
                          !.raised = made.raised]
        /\ UNCHANGED <<tools, resources, error_handler, server, created,
                       handlers, forwarded_tools, forwarded_resources,
                       transport_starts, active, last, conversion, tasks,
                       inference>>

\* create_server(server_type)
CreateServer(server_type) ==
    LET made == create_server(server_type, startup)
    IN  /\ kind = "none"
        /\ kind' = made.kind
        /\ startup' = [startup EXCEPT !.attempt = server_type,
                                      !.raised = made.raised]
        /\ UNCHANGED <<tools, resources, error_handler, server, created,
                       handlers, forwarded_tools, forwarded_resources,
                       transport_starts, active, last, conversion, tasks,
                       inference>>

\* ----------------------------------------------------------- specifications
\* Registration, run and listing on either adapter.
Next ==
    \/ \E func \in Funcs, name \in NameChoices, description \in DescriptionChoices :
          RegisterTool(func, name, description)
    \/ \E uri_pattern \in UriPatterns, func \in ResourceFuncs :
          RegisterResource(uri_pattern, func)
    \/ FastMCPRun
    \/ SDKRun
    \/ TransportClosed
    \/ ListTools
    \/ Completed

Spec == Init /\ [][Next]_vars

\* Requests served by the explicit-dispatch adapter.
InitExec == Init /\ kind = "sdk"

NextExec ==
    \/ \E func \in Funcs : RegisterTool(func, "", <<>>)
    \/ \E uri_pattern \in UriPatterns : RegisterResource(uri_pattern, "greet")
    \/ SDKRun
    \/ TransportClosed
    \/ ListTools
    \/ \E tool_name \in Funcs \cup {"missing_tool"}, arguments \in Arguments :
          CallTool(tool_name, arguments)
    \/ Completed

SpecExec == InitExec /\ [][NextExec]_vars

\* Registration on the pass-through adapter, whose first run hands the
\* external server what the registry holds at that moment.
InitRegistry == Init /\ kind = "fastmcp"

NextRegistry ==
    \/ \E func \in Funcs, name \in NameChoices, description \in DescriptionChoices :
          RegisterTool(func, name, description)
    \/ \E uri_pattern \in UriPatterns, func \in ResourceFuncs :
          RegisterResource(uri_pattern, func)
    \/ FastMCPRun
    \/ Completed

SpecRegistry == InitRegistry /\ [][NextRegistry]_vars

\* The ErrorHandler and ErrorResponse on their own.
NextHandler ==
    \/ \E error_type \in ErrorTypes, handler \in CustomHandlers :
          RegisterErrorHandler(error_type, handler)
    \/ \E e \in Errors : HandleError(e)
    \/ \E r \in ErrorResponses : Serialize(r)
    \/ ConversionDone

SpecHandler == InitHandler /\ [][NextHandler]_vars

\* Call-tool requests served concurrently on one event loop.  The loop
\* keeps running (run() has not returned) and resumes a task once its
\* sleep is over, so a ResumeTask that stays enabled is eventually taken.
NextAsync ==
    \/ \E func \in AsyncFuncs : RegisterTool(func, "", <<>>)
    \/ SDKRun
    \/ \E t \in TaskIds, tool_name \in AsyncFuncs, arguments \in AsyncArguments :
          Deliver(t, tool_name, arguments)
    \/ \E t \in TaskIds : StartTask(t)
    \/ \E t \in TaskIds : ResumeTask(t)

\* Requests to tools with whole-number and floating-point parameters.
NextNumeric ==
    \/ \E func \in NumericFuncs : RegisterTool(func, "", <<>>)
    \/ SDKRun
    \/ TransportClosed
    \/ \E tool_name \in NumericFuncs, arguments \in Arguments :
          CallTool(tool_name, arguments)
    \/ Completed

SpecNumeric == InitExec /\ [][NextNumeric]_vars

\* Schema inference on its own, over every form of declaration.
NextSchema ==
    \E annotation \in Annotations, has_default \in BOOLEAN :
        Declare(annotation, has_default)

SpecSchema == InitSchema /\ [][NextSchema]_vars

\* Process startup: construction directly or through the factory, and
\* what an author's script does with the adapter it got.
NextStartup ==
    \/ \E cls \in {"fastmcp", "sdk"} : Construct(cls)
    \/ \E server_type \in ServerTypes : CreateServer(server_type)
    \/ \E func \in Funcs : kind # "none" /\ RegisterTool(func, "", <<>>)
    \/ \E uri_pattern \in UriPatterns :
          kind # "none" /\ RegisterResource(uri_pattern, "greet")
    \/ FastMCPRun
    \/ SDKRun
    \/ TransportClosed
    \/ ListTools
    \/ Completed

SpecStartup == InitStartup /\ [][NextStartup]_vars

SpecAsync ==
    /\ InitAsync
    /\ [][NextAsync]_vars
    /\ \A t \in TaskIds : WF_vars(ResumeTask(t))

\* =================================================================== claims
\* The call-tool request whose handler has just returned.
CallDone == last.op = "call_tool"

CallRegistered == CallDone /\ DictHas(tools, last.name)

CallContract == DictGet(tools, last.name).parameters

CallExec == last.handled.exec

\* The failure of the call is of kind `code` and its details name `p`.
FailsNaming(code, p) ==
    /\ CallExec.raised # <<>>
    /\ CallExec.raised[1].code = code
    /\ DictHas(CallExec.raised[1].details, "parameter")
    /\ DictGet(CallExec.raised[1].details, "parameter") = p

\* Argument i of the call is a text given for a parameter tagged integer.
TextForInteger(i) ==
    /\ CallRegistered
    /\ DictHas(CallContract.properties, last.arguments[i][1])
    /\ DictGet(CallContract.properties, last.arguments[i][1]).type = "integer"
    /\ last.arguments[i][2].shape = "str"

\* No check of the validator fails before it reaches argument i: every
\* required parameter is present and every earlier argument fits its tag.
FirstFailure(i) ==
    /\ \A k \in 1..Len(CallContract.required) :
          DictHas(last.arguments, CallContract.required[k])
    /\ \A j \in 1..(i - 1) :
          DictHas(CallContract.properties, last.arguments[j][1]) =>
             validate_type(last.arguments[j][2],
                DictGet(CallContract.properties, last.arguments[j][1]).type)

\* C1 (as claimed): a call that lacks a required parameter p of the tool's
\* contract fails with kind MISSING_PARAMETER and details naming p.
C1_MissingParameterKind ==
    \A p \in ArgKeys :
        (/\ CallRegistered
         /\ p \in Range(CallContract.required)
         /\ ~DictHas(last.arguments, p))
        => FailsNaming("MISSING_PARAMETER", p)

\* C2 (as claimed): a call of a name that is not a key of the registry
\* fails with kind TOOL_NOT_FOUND.
C2_NotFoundKind ==
    (CallDone /\ ~DictHas(tools, last.name))
    => (CallExec.raised # <<>> /\ CallExec.raised[1].code = "TOOL_NOT_FOUND")

\* C3: a call that gives a text for a parameter p tagged integer fails and
\* the callable is not invoked; the failure is of kind INVALID_PARAMETER and
\* its details name p and the expected tag integer whenever p's check is
\* the first of the validator's checks to fail.
C3_TextForIntegerRejected ==
    \A i \in 1..Len(last.arguments) :
        TextForInteger(i) =>
            /\ CallExec.raised # <<>>
            /\ CallExec.invoked = <<>>
            /\ FirstFailure(i) =>
                  /\ FailsNaming("INVALID_PARAMETER", last.arguments[i][1])
                  /\ DictHas(CallExec.raised[1].details, "expected_type")
                  /\ DictGet(CallExec.raised[1].details, "expected_type") = "integer"

\* C3 witness: add(a: int, b: int) called with a text for a and a whole
\* number for b was rejected naming a.
C3_Witness ==
    /\ CallRegistered
    /\ last.name = "add"
    /\ last.arguments = << <<"b", PyVal("int", 2)>>, <<"a", PyVal("str", 1)>> >>
    /\ TextForInteger(2) /\ FirstFailure(2)
    /\ FailsNaming("INVALID_PARAMETER", "a")
    /\ CallExec.invoked = <<>>

\* C4: list_tools returns exactly one entry per registered name; each
\* entry's name and description are those of the registration and the
\* required list of its input schema is the set of the callable's
\* (non-receiver) parameters that declare no default.
ParamsWithoutDefault(f) ==
    {FuncTable[f].sig[k].name :
        k \in {j \in 1..Len(FuncTable[f].sig) :
                  /\ ~FuncTable[f].sig[j].has_default
                  /\ FuncTable[f].sig[j].name # "self"}}

C4_ListToolsRoundTrip ==
    last.op = "list_tools" =>
        /\ \A n \in Range(DictKeys(tools)) :
              Cardinality({i \in 1..Len(last.listing) :
                              last.listing[i].name = n}) = 1
        /\ \A i \in 1..Len(last.listing) :
              /\ DictHas(tools, last.listing[i].name)
              /\ LET d == DictGet(tools, last.listing[i].name)
                     required == last.listing[i].inputSchema.required
                 IN  /\ d.name = last.listing[i].name
                     /\ last.listing[i].description = d.description
                     /\ d.description \in
                           {<<"Custom description">>, FuncTable[d.function].doc,
                            <<"Tool: ", d.name>>} \ {<<>>}
                     /\ Range(required) = ParamsWithoutDefault(d.function)
                     /\ Len(required) = Cardinality(Range(required))

\* C4 witness: two tools are listed, greet (b has a default) under its own
\* name and add under the name alias.
C4_Witness ==
    /\ last.op = "list_tools"
    /\ Len(last.listing) = 2
    /\ \E i, j \in 1..2 :
          /\ last.listing[i].name = "greet"
          /\ last.listing[i].inputSchema.required = <<"a">>
          /\ last.listing[j].name = "alias"
          /\ DictGet(tools, "alias").function = "add"
          /\ last.listing[j].inputSchema.required = <<"a", "b">>

\* C5 (as claimed): run() after the first run() is a no-op on both
\* adapters: no second external server, no handlers installed again, no
\* tool or resource forwarded again, no second transport start.
C5_SecondRunIsNoOp ==
    /\ created <= 1
    /\ Len(handlers) <= 2
    /\ Len(forwarded_tools) <= Len(tools)
    /\ Len(forwarded_resources) <= Len(resources)
    /\ transport_starts <= 1

C7_WrappedAsExecutionFailed ==
    (/\ CallDone
     /\ CallExec.thrown # <<>>
     /\ ~IsInstanceExc(CallExec.thrown[1], "MCPError"))
    => /\ CallExec.raised # <<>>
       /\ IsInstanceExc(CallExec.raised[1], "MCPError")
       /\ CallExec.raised[1].code = "TOOL_EXECUTION_FAILED"
       /\ CallExec.raised[1].original_error = CallExec.thrown

\* C8: a returned text, number, boolean, sequence, mapping or None leaves
\* execute unchanged; any other value r leaves it as {"result": str(r)}.
C8_ResultCoercion ==
    (CallDone /\ CallExec.returned # <<>>) =>
        LET r == CallExec.returned[1]
        IN  /\ CallExec.raised = <<>>
            /\ Len(CallExec.result) = 1
            /\ IF r.shape \in {"str", "int", "float", "bool", "list", "dict",
                               "NoneType"}
               THEN CallExec.result[1] = r
               ELSE /\ CallExec.result[1].shape = "dict"
                    /\ Len(CallExec.result[1].items) = 1
                    /\ CallExec.result[1].items[1][1] = "result"
                    /\ CallExec.result[1].items[1][2].shape = "str"
                    /\ CallExec.result[1].items[1][2] = PyStr(r)
                    /\ CallExec.result[1] # r

\* C8 witness: the callable returned a custom object and execute gave
\* back {"result": str(object)}.
C8_Witness ==
    /\ CallDone
    /\ CallExec.returned = << PyVal("object", 1) >>
    /\ CallExec.result[1].items = << <<"result", PyVal("str", 801)>> >>

\* The pass-through branch is reached as well: None comes back as None.
C8_WitnessNone ==
    /\ CallDone
    /\ CallExec.returned = << PyNone >>
    /\ CallExec.result = << PyNone >>

\* C9: a call that fails lookup or validation (a required parameter is
\* missing, or an argument does not fit its tag) fails without any
\* registered callable having been invoked.
LacksRequired ==
    \E k \in 1..Len(CallContract.required) :
        ~DictHas(last.arguments, CallContract.required[k])

HasMistyped ==
    \E i \in 1..Len(last.arguments) :
        /\ DictHas(CallContract.properties, last.arguments[i][1])
        /\ ~validate_type(last.arguments[i][2],
               DictGet(CallContract.properties, last.arguments[i][1]).type)

C9_NoInvocationOnLocalFailure ==
    (CallDone /\ (~DictHas(tools, last.name) \/ LacksRequired \/ HasMistyped))
    => /\ CallExec.raised # <<>>
       /\ CallExec.invoked = <<>>
       /\ CallExec.thrown = <<>>
       /\ CallExec.returned = <<>>

\* C9 witness: a registered tool was called without a required parameter
\* and the call failed before the callable was invoked.
C9_Witness ==
    /\ CallRegistered
    /\ LacksRequired
    /\ ~HasMistyped
    /\ CallExec.raised # <<>>
    /\ CallExec.invoked = <<>>

\* C10: the adapter starts without an external server; only run gives it
\* one, every run leaves it with one, and once it has one no operation
\* takes it away or replaces it.
C10_OneWayLifecycle ==
    /\ server = 0
    /\ [][/\ (server # 0 => server' = server)
          /\ ((FastMCPRun \/ SDKRun) => server' # 0)
          /\ ((server = 0 /\ server' # 0) => (FastMCPRun \/ SDKRun))]_vars

\* C10 witness: an adapter that has been run twice, with a tool registered,
\* still holds its first external server.
C10_Witness ==
    /\ server = 1
    /\ created = 1
    /\ Len(tools) > 0
    /\ \/ transport_starts = 2
       \/ (last.op = "run" /\ last.name = "again")

\* C11: on the pass-through adapter no external server exists and nothing
\* has been forwarded until the first run; that run constructs the one
\* external server and forwards each registered tool and each registered
\* resource once, in registry order; nothing is constructed or forwarded
\* after it.
C11_LazyReplayOnce ==
    [][kind = "fastmcp" =>
          /\ (server = 0 =>
                /\ created = 0
                /\ forwarded_tools = <<>>
                /\ forwarded_resources = <<>>)
          /\ (FastMCPRun => server' # 0)
          /\ (~FastMCPRun =>
                UNCHANGED <<server, created, forwarded_tools,
                            forwarded_resources>>)
          /\ ((server = 0 /\ server' # 0) =>
                /\ created' = 1
                /\ Len(forwarded_tools') = Len(tools)
                /\ \A i \in 1..Len(tools) :
                      forwarded_tools'[i] = tools[i][2].function
                /\ forwarded_resources' = resources)
          /\ (server # 0 =>
                UNCHANGED <<server, created, forwarded_tools,
                            forwarded_resources>>)]_vars

\* C11 witness: two tools and a resource were registered, the adapter was
\* run twice, and the external server holds each of them once.
C11_Witness ==
    /\ kind = "fastmcp"
    /\ last.op = "run" /\ last.name = "again"
    /\ server = 1 /\ created = 1
    /\ Len(tools) = 2
    /\ forwarded_tools = [i \in 1..2 |-> tools[i][2].function]
    /\ Len(resources) = 1
    /\ forwarded_resources = resources

\* The to_dict call whose result is in hand, and the handle_error call.
Serialized == conversion.op = "to_dict"

Converted == conversion.op = "handle_error"

\* C12 (as claimed): the serialized ErrorResponse has code and message,
\* "details" exactly when a detail mapping is present (not None) and
\* "trace_id" exactly when a trace identifier is present, and no other key.
C12_WireShapeWhenPresent ==
    Serialized =>
        LET r == conversion.response
            wire == conversion.wire
        IN  /\ DOMAIN wire = {"error"}
            /\ {"code", "message"} \subseteq DOMAIN wire.error
            /\ DOMAIN wire.error \subseteq
                  {"code", "message", "details", "trace_id"}
            /\ ("details" \in DOMAIN wire.error) <=> (r.details # <<>>)
            /\ ("trace_id" \in DOMAIN wire.error) <=> (r.trace_id # <<>>)

\* C12 (amended): the serialized ErrorResponse is {"error": {...}} with
\* code and message always, "details" exactly when the detail mapping is
\* present and not empty, "trace_id" exactly when the trace identifier is
\* present and not the empty text, each with the response's value, and no
\* other key.
C12_WireShapeWhenNonEmpty ==
    Serialized =>
        LET r == conversion.response
            wire == conversion.wire
        IN  /\ DOMAIN wire = {"error"}
            /\ {"code", "message"} \subseteq DOMAIN wire.error
            /\ DOMAIN wire.error \subseteq
                  {"code", "message", "details", "trace_id"}
            /\ wire.error.code = r.code
            /\ wire.error.message = r.message
            /\ ("details" \in DOMAIN wire.error) <=>
                  (r.details # <<>> /\ Len(r.details[1]) > 0)
            /\ ("details" \in DOMAIN wire.error) =>
                  wire.error.details = r.details[1]
            /\ ("trace_id" \in DOMAIN wire.error) <=>
                  (r.trace_id # <<>> /\ r.trace_id[1] # "")
            /\ ("trace_id" \in DOMAIN wire.error) =>
                  wire.error.trace_id = r.trace_id[1]

\* C12 witness: a response whose details is the empty dict and whose
\* trace_id is a text was serialized without "details", with "trace_id".
C12_Witness ==
    /\ Serialized
    /\ conversion.response.details = << <<>> >>
    /\ conversion.response.trace_id = <<"trace-1">>
    /\ DOMAIN conversion.wire.error = {"code", "message", "trace_id"}

\* The detail mapping of the response carries a stack trace.
HasTraceback(r) == r.details # <<>> /\ DictHas(r.details[1], "traceback")

\* C13: a handler constructed without verbose mode never returns a
\* response with a stack trace, whatever the error and whatever pairs are
\* registered; a response with a stack trace comes from a verbose handler.
C13_NoTraceByDefault ==
    Converted =>
        /\ ~error_handler.include_traceback => ~HasTraceback(conversion.response)
        /\ HasTraceback(conversion.response) => error_handler.include_traceback

\* C13 witness: the default handler converted a wrapped ValueError, and
\* the response has details but no stack trace.
C13_Witness ==
    /\ Converted
    /\ ~error_handler.include_traceback
    /\ conversion.error.original_error # <<>>
    /\ conversion.response.details # <<>>
    /\ ~HasTraceback(conversion.response)

\* A verbose handler does attach the trace.
C13_WitnessVerbose ==
    /\ Converted
    /\ error_handler.include_traceback
    /\ HasTraceback(conversion.response)

\* The registered pairs whose category the converted error belongs to.
MatchingPairs ==
    {i \in 1..Len(error_handler.error_mappings) :
        IsInstanceExc(conversion.error, error_handler.error_mappings[i][1])}

\* Pair i is a most specific one: no other matching pair's category is a
\* proper subtype of pair i's category.
MostSpecific(i) ==
    \A j \in MatchingPairs :
        (error_handler.error_mappings[i][1]
            \in Bases(error_handler.error_mappings[j][1])) => j = i

\* C14 (as claimed): handle_error answers with the conversion of the most
\* specific registered pair the error belongs to; an error that belongs to
\* no pair but the default catch-all is classified UNKNOWN_ERROR with its
\* runtime type name in the details.
C14_MostSpecificPair ==
    Converted =>
        /\ \E i \in MatchingPairs :
              /\ MostSpecific(i)
              /\ conversion.handler = error_handler.error_mappings[i][2]
              /\ conversion.response =
                    apply_handler(error_handler,
                                  error_handler.error_mappings[i][2],
                                  conversion.error)
        /\ (\A i \in MatchingPairs :
               error_handler.error_mappings[i] =
                  <<"Exception", "_handle_generic_error">>)
           => /\ conversion.response.code = "UNKNOWN_ERROR"
              /\ conversion.response.details # <<>>
              /\ DictHas(conversion.response.details[1], "error_type")
              /\ DictGet(conversion.response.details[1], "error_type") =
                    conversion.error.cls

\* C15 (as claimed): once a custom pair is registered for a category, every
\* error of that category is answered by a custom handler, even when a
\* default pair matches it too.
C15_CustomPairFirst ==
    (/\ Converted
     /\ \E i \in MatchingPairs :
           error_handler.error_mappings[i][2] \in CustomHandlers)
    => /\ conversion.handler \in CustomHandlers
       /\ conversion.response =
             apply_handler(error_handler, "custom_handler", conversion.error)

\* The layer that produced the failure of the call in hand.
FailedAt ==
    IF ~DictHas(tools, last.name) THEN "lookup"
    ELSE IF CallExec.invoked = <<>> THEN "validation"
    ELSE "callable"

\* C16: for every failed call-tool request the handler's handle_error is
\* called exactly once, with the failure execute raised, and the error
\* envelope carries that one conversion's serialized response; a request
\* that succeeds is not converted at all.
C16_ConvertedExactlyOnce ==
    CallDone =>
        IF CallExec.raised # <<>>
        THEN /\ Len(last.handled.converted) = 1
             /\ last.handled.converted[1] = CallExec.raised[1]
             /\ Len(last.handled.response) = 1
             /\ last.handled.response[1].content =
                   TextContent(to_dict(handle_error(error_handler,
                                                    CallExec.raised[1])))
        ELSE last.handled.converted = <<>>

\* C16 witnesses: a failure from each layer was converted once.
C16_Witness ==
    /\ CallDone
    /\ CallExec.raised # <<>>
    /\ FailedAt = "callable"
    /\ Len(last.handled.converted) = 1
    /\ DOMAIN last.handled.response[1] = {"content", "isError"}

C16_WitnessLookup ==
    /\ CallDone /\ CallExec.raised # <<>> /\ FailedAt = "lookup"
    /\ Len(last.handled.converted) = 1

C16_WitnessValidation ==
    /\ CallDone /\ CallExec.raised # <<>> /\ FailedAt = "validation"
    /\ Len(last.handled.converted) = 1

\* Every key occurs once in the dict.
KeysUnique(d) == \A i, j \in 1..Len(d) : d[i][1] = d[j][1] => i = j

\* The entry a registration of func under (name, description) must leave.
LatestEntry(func, name, description) ==
    LET n == IF name # "" THEN name ELSE func
    IN  [name |-> n,
         function |-> func,
         description |->
            IF description # <<>> THEN description
            ELSE IF FuncTable[func].doc # <<>> THEN FuncTable[func].doc
            ELSE <<"Tool: ", n>>,
         parameters |-> extract_parameters(FuncTable[func].sig),
         async_tool |-> FuncTable[func].is_async]

\* The keys of the pairs of e that d does not hold at the same place.
ChangedKeys(d, e) ==
    {e[i][1] : i \in {j \in 1..Len(e) : j > Len(d) \/ e[j] # d[j]}}

\* C17: registry keys are unique, and a registration that changes the
\* registry leaves exactly one entry for its key, equal to what that
\* registration alone gives (callable, description, contract, async flag),
\* whether the key was there before or not; the other entries are
\* untouched.  The same for a resource and its URI pattern.
C17_DuplicateOverwrites ==
    /\ KeysUnique(tools) /\ KeysUnique(resources)
    /\ [][LET changed == ChangedKeys(tools, tools')
          IN  /\ KeysUnique(tools') /\ KeysUnique(resources')
              /\ changed # {} =>
                 \A func \in Funcs, name \in NameChoices :
                   (IF name # "" THEN name ELSE func) \in changed =>
                   \A description \in DescriptionChoices :
                     RegisterTool(func, name, description) =>
                       LET latest == LatestEntry(func, name, description)
                       IN  /\ Cardinality({i \in 1..Len(tools') :
                                              tools'[i][1] = latest.name}) = 1
                           /\ DictGet(tools', latest.name) = latest
                           /\ \A i \in 1..Len(tools) :
                                 tools[i][1] # latest.name =>
                                    tools'[i] = tools[i]
                           /\ Len(tools') = IF DictHas(tools, latest.name)
                                            THEN Len(tools)
                                            ELSE Len(tools) + 1
              /\ resources' # resources =>
                 \A uri_pattern \in UriPatterns, func \in ResourceFuncs :
                   RegisterResource(uri_pattern, func) =>
                     /\ Cardinality({i \in 1..Len(resources') :
                                        resources'[i][1] = uri_pattern}) = 1
                     /\ DictGet(resources', uri_pattern) = func
                     /\ \A i \in 1..Len(resources) :
                           resources[i][1] # uri_pattern =>
                              resources'[i] = resources[i]]_vars

\* C17 witness: the external server received add for the one registered
\* tool and greet for the one resource at run time, and the registry now
\* holds greet under that tool name and sleep_then_echo under that URI:
\* both keys were registered again and hold the later registration only.
C17_Witness ==
    /\ kind = "fastmcp"
    /\ forwarded_tools = <<"add">>
    /\ Len(tools) = 1
    /\ tools[1][1] = "alias"
    /\ tools[1][2] = LatestEntry("greet", "alias", <<>>)
    /\ forwarded_resources = << <<"task://{task_id}", "greet">> >>
    /\ resources = << <<"task://{task_id}", "sleep_then_echo">> >>

\* Task t runs the asynchronous echo tool and is suspended in it.
EchoSuspended(t) ==
    /\ tasks[t].pc = "suspended"
    /\ tasks[t].frame[1].function = "sleep_then_echo"
    /\ tasks[t].frame[1].async_tool

\* Task t has replied with the msg it was called with.
EchoReturned(t) ==
    LET msg == DictGet(tasks[t].arguments, "a")
    IN  /\ tasks[t].pc = "done"
        /\ tasks[t].handled.exec.awaited
        /\ tasks[t].handled.exec.result = << msg >>
        /\ tasks[t].handled.response = << [content |-> TextContent(msg)] >>
        /\ tasks[t].handled.escaped = <<>>

\* C18: a call of the asynchronous echo tool that has suspended
\* eventually replies with the msg it was given, and nothing else comes
\* of it; and whenever one call is suspended, any other delivered
\* request can be started right away (the suspended call does not hold
\* the loop).
C18_AsyncEchoNoBlocking ==
    /\ [](\A t \in DOMAIN tasks, u \in DOMAIN tasks :
            tasks[t].pc = "suspended" /\ tasks[u].pc = "pending"
               => \A outcomes \in {StartOutcomes(u)} :
                     ENABLED RunHandler(u, outcomes))
    /\ [](\A t \in DOMAIN tasks :
            tasks[t].pc = "done" /\ Suspends(tasks[t].handled.exec)
               => EchoReturned(t))
    /\ \A t \in TaskIds : EchoSuspended(t) ~> EchoReturned(t)

\* C18 witness: task 1 is still suspended in the echo tool while task 2,
\* delivered and started during that suspension, has run the synchronous
\* tool and replied.
C18_Witness ==
    /\ EchoSuspended(1)
    /\ tasks[2].pc = "done"
    /\ 1 \in tasks[2].started_during
    /\ tasks[2].handled.exec.invoked = <<"add">>
    /\ tasks[2].handled.response # <<>>

\* C18 witness: the suspended call has resumed and replied with its msg
\* after another call was served in between.
C18_WitnessReturned ==
    /\ EchoReturned(1)
    /\ tasks[1].arguments = << <<"a", PyVal("str", 1)>> >>
    /\ tasks[2].pc = "done"
    /\ 1 \in tasks[2].started_during

\* The backend that the construction last attempted needs is missing.
BackendUnavailable ==
    \/ /\ startup.attempt \in {"FastMCPWrapper", "fastmcp"}
       /\ ~startup.fastmcp_available
    \/ /\ startup.attempt \in {"SDKWrapper", "sdk"}
       /\ ~startup.sdk_available
    \/ /\ startup.attempt = "auto"
       /\ ~startup.fastmcp_available /\ ~startup.sdk_available

\* Nothing of an adapter exists: no object, no registry entry, no
\* external server, no handler, no transport.
NothingConstructed ==
    /\ kind = "none"
    /\ tools = <<>> /\ resources = <<>>
    /\ server = 0 /\ created = 0
    /\ handlers = <<>> /\ forwarded_tools = <<>> /\ forwarded_resources = <<>>
    /\ transport_starts = 0 /\ ~active

\* C19: when the backend a construction needs is unavailable, the
\* construction (direct or through the factory) ends with a raised
\* ImportError, which is an exception and not an ErrorResponse: the
\* error handler is not used and no request was answered; and no adapter,
\* registry or external server exists afterwards.
C19_StartupFailsFast ==
    BackendUnavailable =>
        /\ Len(startup.raised) = 1
        /\ startup.raised[1].cls = "ImportError"
        /\ DOMAIN startup.raised[1] # DOMAIN ErrorResponse("", <<>>, <<>>, <<>>)
        /\ conversion = NoConversion
        /\ last = Idle
        /\ NothingConstructed

\* C19 witness: the factory was asked for the SDK adapter while only the
\* FastMCP backend imports, and raised.
C19_Witness ==
    /\ startup.attempt = "sdk"
    /\ startup.fastmcp_available /\ ~startup.sdk_available
    /\ startup.raised # <<>>
    /\ kind = "none"

\* C19 witnesses: a direct constructor call, and auto-detection with no
\* backend at all.
C19_WitnessDirect ==
    /\ startup.attempt = "FastMCPWrapper"
    /\ ~startup.fastmcp_available
    /\ startup.raised # <<>>

C19_WitnessAuto ==
    /\ startup.attempt = "auto"
    /\ ~startup.fastmcp_available /\ ~startup.sdk_available
    /\ startup.raised # <<>>

\* The tag the fixed table gives a declaration: the six coarse tags for
\* text, whole number, floating point, boolean, sequence and mapping,
\* a sequence or mapping being one in any declared form (list or
\* List[str], dict or Dict[str, Any]), and string for anything else.
TableTag(annotation) ==
    LET declared == IF annotation[1] \in {"plain", "alias"}
                    THEN annotation[2]
                    ELSE ""
    IN  CASE declared = "str" -> "string"
          [] declared = "int" -> "integer"
          [] declared = "float" -> "number"
          [] declared = "bool" -> "boolean"
          [] declared = "list" -> "array"
          [] declared = "dict" -> "object"
          [] OTHER -> "string"

\* C20 (as claimed): in the contract of every registered tool, each
\* parameter that is declared with a single type, in any form, or with
\* none carries the tag the fixed table gives that declaration; a
\* sequence that declares its element type (List[str]) is tagged array.
C20_TableForEveryDeclaredForm ==
    \A i \in 1..Len(tools) :
        LET tool_def == tools[i][2]
            sig == FuncTable[tool_def.function].sig
        IN  \A j \in 1..Len(sig) :
                sig[j].name # "self" /\ sig[j].annotation[1] # "union" =>
                    DictGet(tool_def.parameters.properties, sig[j].name) =
                        [type |-> TableTag(sig[j].annotation)]

\* The annotation is a union, in either spelling, one of whose members
\* is the absence marker NoneType.
IsOptionalWrapper(annotation) ==
    /\ annotation[1] \in {"union", "uniontype"}
    /\ \E k \in 1..Len(annotation[2]) : annotation[2][k] = AnnPlain("NoneType")

\* The T of an optional wrapper: what is left without the absence marker.
Wrapped(annotation) ==
    LET NotNone(a) == a # AnnPlain("NoneType")
        rest == SelectSeq(annotation[2], NotNone)
    IN  IF Len(rest) = 1 THEN rest[1] ELSE <<annotation[1], rest>>

CoarseTags == {"string", "integer", "number", "boolean", "array", "object"}

\* C21 (as claimed): every parameter declared as an optional wrapper
\* around T, in any spelling, has in the contract exactly the tag that a
\* parameter declared as T gets, and that tag is one of the six coarse
\* tags.
C21_OptionalUnwraps ==
    \A i \in 1..Len(inference.sig) :
        LET param == inference.sig[i]
            schema == DictGet(inference.contract.properties, param.name)
        IN  IsOptionalWrapper(param.annotation) =>
                /\ schema = type_to_schema(Wrapped(param.annotation))
                /\ schema.type \in CoarseTags

\* The positions, in the contract's required list, of the parameters the
\* call in hand does not give.
MissingRequired ==
    {k \in 1..Len(CallContract.required) :
        ~DictHas(last.arguments, CallContract.required[k])}

\* Some argument of the call in hand does not fit its parameter's tag.
SomeBadType ==
    \E i \in 1..Len(last.arguments) :
        /\ DictHas(CallContract.properties, last.arguments[i][1])
        /\ ~validate_type(last.arguments[i][2],
               DictGet(CallContract.properties, last.arguments[i][1]).type)

\* C22: when a call lacks required parameters, the failure names the
\* first of them in the contract's declaration order and no expected
\* type, whatever the types of the arguments that are given, and the
\* callable is not invoked.
C22_RequiredBeforeTypes ==
    (CallRegistered /\ MissingRequired # {}) =>
        LET first == CallContract.required[
                        CHOOSE k \in MissingRequired :
                            \A j \in MissingRequired : k <= j]
        IN  /\ CallExec.invoked = <<>>
            /\ Len(CallExec.raised) = 1
            /\ CallExec.raised[1].cls = "ValidationError"
            /\ CallExec.raised[1].message =
                  <<"Missing required parameter: ", first>>
            /\ CallExec.raised[1].details = << <<"parameter", first>> >>

\* C22 witness: add(a: int, b: int) was called with a text for b and
\* nothing for a; the failure names a.
C22_Witness ==
    /\ CallRegistered
    /\ last.name = "add"
    /\ SomeBadType
    /\ MissingRequired = {1}
    /\ CallExec.raised # <<>>
    /\ CallExec.raised[1].details = << <<"parameter", "a">> >>

\* C22 witness: both required parameters are missing; a is named.
C22_WitnessSeveral ==
    /\ CallRegistered
    /\ last.name = "add"
    /\ MissingRequired = {1, 2}
    /\ CallExec.raised # <<>>
    /\ CallExec.raised[1].details = << <<"parameter", "a">> >>

\* The arguments of the call in hand whose key the contract declares.
DeclaredArguments ==
    LET Declared(pair) == DictHas(CallContract.properties, pair[1])
    IN  SelectSeq(last.arguments, Declared)

\* C23: a call whose declared arguments satisfy the contract passes
\* validation whatever further keys, with whatever values, it carries:
\* the validator raises nothing and execute goes on to the callable.
C23_ExtraKeysIgnored ==
    (/\ CallRegistered
     /\ validate_arguments(DictGet(tools, last.name), DeclaredArguments) = <<>>)
    => /\ validate_arguments(DictGet(tools, last.name), last.arguments) = <<>>
       /\ CallExec.invoked = << DictGet(tools, last.name).function >>

\* C23 witness: greet(a: str, b: Optional[int]) was called with a text
\* for a and one key the contract does not declare; the callable was
\* invoked.
C23_Witness ==
    /\ CallRegistered
    /\ last.name = "greet"
    /\ Len(last.arguments) = 2
    /\ Len(DeclaredArguments) = 1
    /\ DictHas(last.arguments, "x")
    /\ CallExec.invoked = <<"greet">>

\* C24 (as claimed): after handle_error on a TypedError the error is what
\* it was (kind, message, detail mapping), converting it again gives an
\* equal response, and the response's detail mapping is an object of its
\* own, in default and in verbose mode.
C24_ConversionPure ==
    (/\ conversion.op = "handle_error"
     /\ IsInstanceExc(conversion.error, "MCPError"))
    => /\ conversion.error_after = conversion.error
       /\ handle_error(error_handler, conversion.error_after) =
             conversion.response
       /\ ~conversion.shares_details

\* The TypedError that arose inside execute for the call in hand, as
\* <<e>>: the validator's failure, or an MCPError the callable raised.
TypedErrorInside ==
    IF ~CallRegistered THEN <<>>
    ELSE IF validate_arguments(DictGet(tools, last.name), last.arguments) # <<>>
    THEN validate_arguments(DictGet(tools, last.name), last.arguments)
    ELSE IF /\ CallExec.thrown # <<>>
            /\ IsInstanceExc(CallExec.thrown[1], "MCPError")
    THEN CallExec.thrown
    ELSE <<>>

\* C25: a TypedError that the validator produced or the callable raised
\* is what execute raises, the same object with the same kind, message
\* and details and without a wrapper around it, and the error envelope
\* of the call carries that kind.
C25_TypedErrorUnchanged ==
    (CallDone /\ TypedErrorInside # <<>>) =>
        /\ CallExec.raised = TypedErrorInside
        /\ CallExec.raised[1].original_error = <<>>
        /\ Len(last.handled.response) = 1
        /\ last.handled.response[1].content[1].text.str_of.error.code =
              TypedErrorInside[1].code
        /\ last.handled.response[1].content[1].text.str_of.error.message =
              TypedErrorInside[1].message

\* C25 witness: the callable raised a ToolError and the caller got
\* TOOL_EXECUTION_FAILED with the tool's own message and details.
C25_Witness ==
    /\ CallDone
    /\ CallExec.thrown = << ToolError(<<"Build process failed">>, "build") >>
    /\ CallExec.raised = CallExec.thrown
    /\ last.handled.response[1].content[1].text.str_of.error.code =
          "TOOL_EXECUTION_FAILED"

\* C25 witness: the validator's failure left execute as it was raised.
C25_WitnessValidator ==
    /\ CallRegistered
    /\ CallExec.invoked = <<>>
    /\ CallExec.raised # <<>>
    /\ CallExec.raised[1].cls = "ValidationError"
    /\ CallExec.raised[1].code = "INVALID_PARAMETER"

\* C26: a step changes the tool catalogue or the resource catalogue only
\* if it is a registration; run, list_tools and call_tool (execute
\* included), whether they succeed or fail, leave every key, callable,
\* description, contract and async flag as it was.
C26_OnlyRegistrationWrites ==
    [][\/ UNCHANGED <<tools, resources>>
       \/ /\ last = Idle /\ last' = Idle
          /\ UNCHANGED <<server, created, handlers, transport_starts, active>>
          /\ \/ \E func \in Funcs : RegisterTool(func, "", <<>>)
             \/ \E uri_pattern \in UriPatterns :
                   RegisterResource(uri_pattern, "greet")]_vars

\* C26 witness: a call has just failed while the registry holds two
\* tools and a resource.
C26_Witness ==
    /\ CallDone
    /\ CallExec.raised # <<>>
    /\ CallExec.invoked # <<>>
    /\ Len(tools) = 2
    /\ Len(resources) = 1

\* C26 witness: a call has just succeeded on the same registry.
C26_WitnessSuccess ==
    /\ CallDone
    /\ CallExec.raised = <<>>
    /\ Len(tools) = 2
    /\ Len(resources) = 1

\* Argument i of the call in hand is a boolean given for a parameter
\* with the tag `tag`.
BooleanFor(i, tag) ==
    /\ CallRegistered
    /\ DictHas(CallContract.properties, last.arguments[i][1])
    /\ DictGet(CallContract.properties, last.arguments[i][1]).type = tag
    /\ last.arguments[i][2].shape = "bool"

\* C27: a boolean given for a parameter tagged integer or number is not
\* the cause of an invalid-parameter failure; and when nothing else is
\* wrong with the arguments the callable is invoked, and receives the
\* boolean itself (the echoing callable returns it).
C27_BooleanPassesAsNumber ==
    \A i \in 1..Len(last.arguments), tag \in {"integer", "number"} :
        BooleanFor(i, tag) =>
            /\ ~FailsNaming("INVALID_PARAMETER", last.arguments[i][1])
            /\ (\A j \in 1..Len(last.arguments) :
                    j = i \/ BooleanFor(j, "integer") \/ BooleanFor(j, "number"))
                /\ MissingRequired = {}
               => /\ CallExec.invoked = << DictGet(tools, last.name).function >>
                  /\ FuncTable[CallExec.invoked[1]].body = "echo"
                        => CallExec.returned = << last.arguments[i][2] >>

\* C27 witness: scale(a: float) was called with a boolean for a and
\* returned it.
C27_Witness ==
    /\ CallRegistered
    /\ last.name = "scale"
    /\ Len(last.arguments) = 1
    /\ BooleanFor(1, "number")
    /\ CallExec.invoked = <<"scale">>
    /\ CallExec.returned = << PyVal("bool", 1) >>
    /\ CallExec.raised = <<>>

\* C27 witness: add(a: int, b: int) was called with booleans for both
\* and was invoked.
C27_WitnessInteger ==
    /\ CallRegistered
    /\ last.name = "add"
    /\ Len(last.arguments) = 2
    /\ BooleanFor(1, "integer") /\ BooleanFor(2, "integer")
    /\ CallExec.invoked = <<"add">>

\* The call in hand is to a registered tool, passes validation, and
\* carries a key that the callable's signature does not declare.
CarriesUndeclaredKey ==
    /\ CallRegistered
    /\ validate_arguments(DictGet(tools, last.name), last.arguments) = <<>>
    /\ LET sig == FuncTable[DictGet(tools, last.name).function].sig
       IN  \E i \in 1..Len(last.arguments) :
               \A j \in 1..Len(sig) : sig[j].name # last.arguments[i][1]

\* C28: a call that passes validation and carries a key the callable does
\* not declare is invoked with that key all the same; the invocation
\* fails at binding, the body does not run, and execute raises the
\* wrapped failure, so the caller gets an error envelope, not a result.
C28_UndeclaredKeyReachesCallable ==
    CarriesUndeclaredKey =>
        /\ CallExec.invoked = << DictGet(tools, last.name).function >>
        /\ CallExec.returned = <<>>
        /\ Len(CallExec.thrown) = 1
        /\ CallExec.thrown[1].cls = "TypeError"
        /\ CallExec.raised =
              << MCPError(<<"Tool execution failed: ">> \o CallExec.thrown[1].message,
                          "UNKNOWN_ERROR", <<>>, CallExec.thrown) >>
        /\ DOMAIN last.handled.response[1] = {"content", "isError"}

\* C28 witness: sleep_then_echo(a: str) was called with a text for a and
\* a further key x; the callable was invoked and the call failed.
C28_Witness ==
    /\ CarriesUndeclaredKey
    /\ last.name = "sleep_then_echo"
    /\ DictHas(last.arguments, "a") /\ DictHas(last.arguments, "x")
    /\ CallExec.invoked = <<"sleep_then_echo">>
    /\ CallExec.raised # <<>>

\* C29: on the pass-through adapter, once the first run has made the
\* external server, a registration still goes into the registry, but
\* what the external server has been handed stays what it was, through
\* every later registration and every later run.
C29_LateRegistrationNotForwarded ==
    [][(kind = "fastmcp" /\ server # 0) =>
          /\ forwarded_tools' = forwarded_tools
          /\ forwarded_resources' = forwarded_resources
          /\ \A func \in Funcs :
                RegisterTool(func, "", <<>>) =>
                    /\ DictHas(tools', func)
                    /\ DictGet(tools', func).function = func
          /\ \A uri_pattern \in UriPatterns, func \in ResourceFuncs :
                RegisterResource(uri_pattern, func) =>
                    DictGet(resources', uri_pattern) = func]_vars

\* C29 witness: add was registered and the adapter was run; then greet
\* and a resource were registered and the adapter was run again.  The
\* registry holds both tools and the resource, the external server was
\* handed add alone.
C29_Witness ==
    /\ kind = "fastmcp"
    /\ server # 0
    /\ last.op = "run" /\ last.name = "again"
    /\ DictKeys(tools) = <<"add", "greet">>
    /\ forwarded_tools = <<"add">>
    /\ resources # <<>>
    /\ forwarded_resources = <<>>

\* C30: the replay of the pass-through adapter hands the external server
\* one thing per registry entry, the entry's callable: the key the entry
\* is registered under is not what is handed over, so an entry under a
\* custom name arrives as its callable's own identifier, and two keys
\* bound to one callable arrive as that callable twice.
C30_ForwardsCallableOnly ==
    [][(kind = "fastmcp" /\ server = 0 /\ server' # 0) =>
          /\ Len(forwarded_tools') = Len(tools)
          /\ \A i \in 1..Len(tools) :
                LET tool_name == tools[i][1]
                    tool_def  == tools[i][2]
                IN  /\ forwarded_tools'[i] \in DOMAIN FuncTable
                    /\ forwarded_tools'[i] = tool_def.function
                    /\ (tool_name # tool_def.function =>
                            forwarded_tools'[i] # tool_name)
          /\ \A i, j \in 1..Len(tools) :
                tools[i][2].function = tools[j][2].function =>
                    forwarded_tools'[i] = forwarded_tools'[j]]_vars

\* C30 witness: greet is registered under its own name and, with a custom
\* description, under the name alias; the run has handed the external
\* server greet twice and neither alias nor the description.
C30_Witness ==
    /\ kind = "fastmcp"
    /\ server # 0
    /\ last.op = "run" /\ last.name = "first"
    /\ DictKeys(tools) = <<"greet", "alias">>
    /\ DictGet(tools, "alias").function = "greet"
    /\ DictGet(tools, "alias").description = <<"Custom description">>
    /\ forwarded_tools = <<"greet", "greet">>

====
